---- MODULE Spec2Model ----
(***************************************************************************)
(* A model of ndqf.py: the negative definite quadratic form engine NDQF,   *)
(* its homology group Hom_Group and the enumeration helpers lrange,        *)
(* max_bounds, increment and get_beta.                                     *)
(*                                                                         *)
(* Vectors are sequences of integers (index 1 is Python index 0), matrices *)
(* are sequences of rows.  A Fraction is a record [num, den] in lowest     *)
(* terms with den > 0.                                                     *)
(***************************************************************************)
EXTENDS Integers, Sequences, FiniteSets, TLC

VARIABLES
    mat,             \* NDQF.mat
    decomp,          \* NDQF.decomp = [D, U, V]
    mat_inverse,     \* NDQF.mat_inverse (matrix of Fractions)
    basepoint,       \* NDQF.basepoint
    group,           \* NDQF.group / the Hom_Group under construction
    diagonal,        \* argument 'diagonal' of Hom_Group.__init__
    rows,            \* argument 'rows' of Hom_Group.__init__
    pc,              \* position of the running call
    coef_list,       \* argument of the last find_rep call
    rep_out,         \* value returned by the last find_rep call
    representatives, \* correction_terms: the list built by map(find_rep, ...)
    listofmaxes,     \* correction_terms: the maxima appended so far
    maxval,          \* correction_terms: the running maximum of the current rep
    raised,          \* the exception a call ended with ("" when none)
    betagen,         \* the generator object returned by get_beta(rep)
    yielded          \* the vectors the generator has yielded so far

vars == <<mat, decomp, mat_inverse, basepoint, group, diagonal, rows, pc,
          coef_list, rep_out, representatives, listofmaxes, maxval, raised,
          betagen, yielded>>

ndqfVars == <<mat, decomp, mat_inverse, basepoint>>
homArgs == <<diagonal, rows>>
callVars == <<coef_list, rep_out, representatives, listofmaxes, maxval>>
betaVars == <<betagen, yielded>>

----------------------------------------------------------------------------
(* Bounds of the model. *)

\* largest matrix dimension
MaxDim == 2
\* largest diagonal entry of D and largest absolute value of an entry of M
MaxFactor == 3
\* largest value -M[i,i] handed to max_bounds in the get_beta runs
MaxDiag == 2
\* largest absolute value of a coordinate of rep in the get_beta runs
MaxRep == 1

\* largest coefficient handed to find_rep
MaxCoef == 2

\* sys.maxint of a 32-bit build
maxint == 2147483647

----------------------------------------------------------------------------
(* Integer and vector helpers. *)

Abs(x) == IF x < 0 THEN -x ELSE x

RECURSIVE GCD(_, _)
GCD(a, b) == IF b = 0 THEN Abs(a) ELSE GCD(Abs(b), Abs(a) % Abs(b))

RECURSIVE SumSeq(_)
SumSeq(s) == IF s = <<>> THEN 0 ELSE Head(s) + SumSeq(Tail(s))

RECURSIVE ProdSeq(_)
ProdSeq(s) == IF s = <<>> THEN 1 ELSE Head(s) * ProdSeq(Tail(s))

\* Python's range(a, b) as a list
Range(a, b) == [k \in 1..(IF b > a THEN b - a ELSE 0) |-> a + k - 1]

Zeros(n) == [i \in 1..n |-> 0]

Identity(n) == [i \in 1..n |-> [j \in 1..n |-> IF i = j THEN 1 ELSE 0]]

VecAdd(u, v) == [i \in 1..Len(u) |-> u[i] + v[i]]

VecScale(c, v) == [i \in 1..Len(v) |-> c * v[i]]

MatMul(a, b) ==
    [i \in 1..Len(a) |->
        [j \in 1..Len(b[1]) |->
            SumSeq([k \in 1..Len(b) |-> a[i][k] * b[k][j]])]]

\* numpy.diagonal of a square matrix: a one-dimensional array
Diagonal(m) == [i \in 1..Len(m) |-> m[i][i]]

DiagMat(d) ==
    [i \in 1..Len(d) |-> [j \in 1..Len(d) |-> IF i = j THEN d[i] ELSE 0]]

Symmetric(m) == \A i, j \in 1..Len(m) : m[i][j] = m[j][i]

----------------------------------------------------------------------------
(* Hom_Group *)

IsNotOne(x) == x # 1

\* nontrivial(mat): mat[mat != 1]
nontrivial(m) == SelectSeq(m, IsNotOne)

\* start = vect_dim - group_rank, as a 0-based row index
GenStartSwapped(vect_dim, group_rank) == group_rank

GenStart(vect_dim, group_rank) == vect_dim - group_rank

\* Hom_Group.__init__(diagonal, rows)
Hom_Group(diag, rws) ==
    LET invariant_factors == Diagonal(diag)
        structure == nontrivial(invariant_factors)
        group_rank == Len(structure)
        vect_dim == Len(diag)
        start == GenStart(vect_dim, group_rank)
        genIdx == Range(start, vect_dim)
        relIdx == Range(0, start)
    IN  [structure |-> structure,
         gen |-> [i \in 1..Len(genIdx) |-> rws[genIdx[i] + 1]],
         rel |-> [i \in 1..Len(relIdx) |-> rws[relIdx[i] + 1]]]

NoGroup == [structure |-> <<>>, gen |-> <<>>, rel |-> <<>>]

----------------------------------------------------------------------------
(* Unimodular matrices used as the U and V of a decomposition. *)

Swap(n, a, b) ==
    [i \in 1..n |-> [j \in 1..n |->
        IF i = a THEN (IF j = b THEN 1 ELSE 0)
        ELSE IF i = b THEN (IF j = a THEN 1 ELSE 0)
        ELSE IF i = j THEN 1 ELSE 0]]

Shear(n, a, b, c) ==
    [i \in 1..n |-> [j \in 1..n |->
        IF i = j THEN 1 ELSE IF i = a /\ j = b THEN c ELSE 0]]

UniMats(n) ==
    {Identity(n), DiagMat([i \in 1..n |-> -1])}
    \cup ({Swap(n, ab[1], ab[2]) :
             ab \in {x \in (1..n) \X (1..n) : x[1] < x[2]}}
    \cup {Shear(n, ab[1], ab[2], c) :
             ab \in {x \in (1..n) \X (1..n) : x[1] # x[2]}, c \in {-1, 1}})

----------------------------------------------------------------------------
(* fractions.Fraction *)

Fraction(n, d) ==
    LET g == GCD(n, d)
        sgn == IF d < 0 THEN -1 ELSE 1
    IN  [num |-> sgn * (n \div g), den |-> sgn * (d \div g)]

FromInt(n) == [num |-> n, den |-> 1]

FracAdd(a, b) == Fraction(a.num * b.den + b.num * a.den, a.den * b.den)

FracMul(a, b) == Fraction(a.num * b.num, a.den * b.den)

\* a > b; an integer b is compared through floor(a) so that the products
\* stay small when b is -maxint-1
FracGt(a, b) ==
    IF b.den = 1
    THEN \/ a.num \div a.den > b.num
         \/ a.num \div a.den = b.num /\ a.num % a.den # 0
    ELSE a.num * b.den > b.num * a.den

RECURSIVE FracSum(_)
FracSum(s) == IF s = <<>> THEN FromInt(0) ELSE FracAdd(Head(s), FracSum(Tail(s)))

----------------------------------------------------------------------------
(* Integer matrix inverse: numpy's m.I rounded to integers, which for a    *)
(* unimodular m is the adjugate divided by the determinant.                *)

Minor(m, r, c) ==
    LET n == Len(m)
        skip(k, x) == IF k < x THEN k ELSE k + 1
    IN  [i \in 1..(n - 1) |-> [j \in 1..(n - 1) |-> m[skip(i, r)][skip(j, c)]]]

RECURSIVE Det(_)
Det(m) ==
    IF Len(m) = 0 THEN 1
    ELSE SumSeq([j \in 1..Len(m) |->
            (IF j % 2 = 1 THEN 1 ELSE -1) * m[1][j] * Det(Minor(m, 1, j))])

IntInverse(m) ==
    LET d == Det(m)
    IN  [i \in 1..Len(m) |-> [j \in 1..Len(m) |->
            ((IF (i + j) % 2 = 0 THEN 1 ELSE -1) * Det(Minor(m, j, i))) \div d]]

----------------------------------------------------------------------------
(* NDQF *)

\* flip(n) of rational_inverse
flip(n) == IF n = 0 THEN FromInt(0) ELSE Fraction(1, n)

\* NDQF.rational_inverse(diag, left, right)
rational_inverse(diag, left, right) ==
    LET new_left == IntInverse(right)
        new_right == IntInverse(left)
        n == Len(diag)
    IN  [i \in 1..n |-> [j \in 1..n |->
            FracSum([k \in 1..n |->
                FracMul(FromInt(new_left[i][k] * new_right[k][j]),
                        flip(diag[k][k]))])]]

\* NDQF.compute_affine_space: np.diagonal(self.mat) % 2
compute_affine_space(m) == [i \in 1..Len(m) |-> m[i][i] % 2]

\* NDQF.eval(u, v, inverse=True): u * mat_inverse * v, a 1x1 matrix
eval_inverse(minv, u, v) ==
    LET n == Len(minv)
    IN  FracSum([i \in 1..n |->
            FracSum([j \in 1..n |-> FracMul(FromInt(u[i] * v[j]), minv[i][j])])])

\* NDQF.find_abs(alpha)
find_abs(minv, alpha) == eval_inverse(minv, alpha, alpha)

\* zip(a, b) stops at the shorter list
ZipLen(a, b) == IF Len(a) < Len(b) THEN Len(a) ELSE Len(b)

RECURSIVE VecSum(_, _)
VecSum(vs, n) == IF vs = <<>> THEN Zeros(n) ELSE VecAdd(Head(vs), VecSum(Tail(vs), n))

\* NDQF.find_rep(coef_list).  The sum of a non-empty list of 1xn matrix rows
\* is a 1xn matrix; sum([]) is the integer 0 and basepoint + 0 stays the
\* one-dimensional array that np.diagonal returned.
find_rep(bp, grp, coefs) ==
    LET k == ZipLen(coefs, grp.gen)
        unsummed == [i \in 1..k |-> VecScale(coefs[i], grp.gen[i])]
    IN  [shape |-> IF k = 0 THEN "array" ELSE "matrix",
         val |-> VecAdd(bp, VecSum(unsummed, Len(bp)))]

\* lrange(index_list): the list of everything the generator yields.
\* LrangeFrom is the loop 'for i_sub in xrange(i)' from i_sub on.
RECURSIVE LrangeFromInclusive(_, _, _)
LrangeFromInclusive(i_sub, i, sub) ==
    IF i_sub > i THEN <<>>
    ELSE [k \in 1..Len(sub) |-> <<i_sub>> \o sub[k]]
            \o LrangeFromInclusive(i_sub + 1, i, sub)

RECURSIVE LrangeFrom(_, _, _)
LrangeFrom(i_sub, i, sub) ==
    IF i_sub >= i THEN <<>>
    ELSE [k \in 1..Len(sub) |-> <<i_sub>> \o sub[k]] \o LrangeFrom(i_sub + 1, i, sub)

RECURSIVE lrange(_)
lrange(index_list) ==
    IF index_list = <<>> THEN << <<>> >>
    ELSE LrangeFrom(0, Head(index_list), lrange(Tail(index_list)))

IsEven(i) == i % 2 = 0

\* the upper end of range(-ndiag-rep[index], ndiag+1-rep[index])
BoundsStopExclusive(ndiag, r) == ndiag - r

BoundsStop(ndiag, r) == ndiag + 1 - r

IsOdd(i) == i % 2 = 1

\* the filter 'if i%2 == 0' of max_bounds
ParityOdd(lst) == SelectSeq(lst, IsOdd)

Parity(lst) == SelectSeq(lst, IsEven)

\* NDQF.max_bounds(rep), rep a list
max_bounds(m, r) ==
    LET diag_vals == [val \in 1..Len(m) |-> -m[val][val]]
        ml == [index \in 1..Len(diag_vals) |->
                 Parity(Range(-diag_vals[index] - r[index],
                              BoundsStop(diag_vals[index], r[index])))]
    IN  [max_list |-> ml,
         max_list_sizes |-> [index \in 1..Len(ml) |-> Len(ml[index])]]

\* the test 'counter[pos] >= diag[pos]-1' of increment
AtMaxStrict(c, d) == c > d - 1

AtMax(c, d) == c >= d - 1

\* NDQF.increment(counter, pos, diag); pos counts from 0.
\* Returns the counter and the exception raised, if any.
RECURSIVE increment(_, _, _)
increment(cnt, pos, diag) ==
    IF pos >= Len(cnt)
    THEN [counter |-> cnt, raised |-> "ValueError"]
    ELSE IF AtMax(cnt[pos + 1], diag[pos + 1])
         THEN increment([cnt EXCEPT ![pos + 1] = 0], pos + 1, diag)
         ELSE [counter |-> [cnt EXCEPT ![pos + 1] = cnt[pos + 1] + 1],
               raised |-> ""]

\* NDQF.get_beta(rep): the generator object before its first resumption
get_beta(r) ==
    [pc |-> "start", rep |-> r, max_list |-> <<>>, max_list_sizes |-> <<>>,
     counter |-> <<>>, iter |-> 0, raised |-> ""]

\* the test 'counter != max_list_sizes2' after a yield
NotAtEndAlways(cnt, sizes2) == TRUE

NotAtEnd(cnt, sizes2) == cnt # sizes2

\* get_beta, lines 149-153: run when the generator is first resumed.
\* np.array(rep)[0].tolist() is a list for a 1xn matrix and a plain integer
\* for a one-dimensional array, which max_bounds then fails to index.
GenEnter(m, g) ==
    IF g.rep.shape = "array"
    THEN [g EXCEPT !.pc = "raised", !.raised = "TypeError"]
    ELSE LET mb == max_bounds(m, g.rep.val)
         IN  [g EXCEPT !.pc = "loop",
                       !.max_list = mb.max_list,
                       !.max_list_sizes = mb.max_list_sizes,
                       !.counter = Zeros(Len(m))]

\* get_beta, lines 158-161: run when the generator is resumed after a yield
GenUpdate(g) ==
    LET max_list_sizes2 == [i \in 1..Len(g.max_list_sizes) |-> g.max_list_sizes[i] - 1]
    IN  IF NotAtEnd(g.counter, max_list_sizes2)
        THEN LET inc == increment(g.counter, 0, g.max_list_sizes)
             IN  IF inc.raised # ""
                 THEN [g EXCEPT !.pc = "raised", !.raised = inc.raised,
                                !.counter = inc.counter]
                 ELSE [g EXCEPT !.pc = "loop", !.counter = inc.counter]
        ELSE [g EXCEPT !.pc = "done"]

\* get_beta, lines 154-156: the head of the for loop, up to the yield
GenLoop(g) ==
    IF g.pc # "loop" THEN g
    ELSE IF g.iter >= ProdSeq(g.max_list_sizes)
    THEN [g EXCEPT !.pc = "done"]
    ELSE IF \E i \in 1..Len(g.counter) : g.counter[i] >= g.max_list_sizes[i]
    THEN [g EXCEPT !.pc = "raised", !.raised = "IndexError"]
    ELSE [g EXCEPT !.pc = "yielded", !.iter = g.iter + 1]

\* the vector a generator stopped at a yield hands out
GenValue(g) == [i \in 1..Len(g.counter) |-> g.max_list[i][g.counter[i] + 1]]

\* one next() on the generator
GenResume(m, g) ==
    IF g.pc = "start" THEN GenLoop(GenEnter(m, g))
    ELSE IF g.pc = "yielded" THEN GenLoop(GenUpdate(g))
    ELSE g

\* 'for beta in betagen': every vector yielded, and the exception if the
\* generator ended with one
RECURSIVE Drain(_, _, _)
Drain(m, g, acc) ==
    IF g.pc \in {"done", "raised"}
    THEN [betas |-> acc, raised |-> g.raised]
    ELSE LET h == GenResume(m, g)
         IN  Drain(m, h, IF h.pc = "yielded" THEN Append(acc, GenValue(h)) ELSE acc)

\* the comparison 'alphaval > maxval' of correction_terms
Larger(alphaval, cur) == FracGt(alphaval, cur)

\* maxval = -maxint-1
Sentinel == FromInt(-maxint - 1)

----------------------------------------------------------------------------
(* smith_normal_form(m): some diagonal D and unimodular U, V with          *)
(* U * D * V = m; zero diagonal entries come last.  The forms m taken are  *)
(* the symmetric ones with entries in -MaxFactor..MaxFactor.               *)

Bounded(m) ==
    \A i, j \in 1..Len(m) : -MaxFactor <= m[i][j] /\ m[i][j] <= MaxFactor

ZerosLast(d) == \A i, j \in 1..Len(d) : (i < j /\ d[i] = 0) => d[j] = 0

SmithDecomps(n) ==
    {x \in [D : {DiagMat(d) : d \in {e \in [1..n -> 0..MaxFactor] : ZerosLast(e)}},
            U : UniMats(n), V : UniMats(n)] :
        LET m == MatMul(MatMul(x.U, x.D), x.V)
        IN  Symmetric(m) /\ Bounded(m)}

----------------------------------------------------------------------------
(* The NDQF object and the calls made on it. *)

NoGen == [pc |-> "none", rep |-> <<>>, max_list |-> <<>>, max_list_sizes |-> <<>>,
          counter |-> <<>>, iter |-> 0, raised |-> ""]

NoRep == [shape |-> "none", val |-> <<>>]

\* coefficient lists handed to find_rep: every length up to one more than
\* the dimension
CoefLists == {[i \in 1..len |-> c] : len \in 0..(MaxDim + 1), c \in 1..MaxCoef}

\* NDQF.__init__(mat), with d, (u, v) = smith_normal_form(mat)
Init ==
    /\ \E n \in 1..MaxDim : \E dec \in SmithDecomps(n) :
        /\ mat = MatMul(MatMul(dec.U, dec.D), dec.V)
        /\ decomp = dec
        /\ mat_inverse = rational_inverse(dec.D, dec.U, dec.V)
        /\ basepoint = compute_affine_space(mat)
        /\ group = Hom_Group(dec.D, dec.V)
        /\ diagonal = dec.D
        /\ rows = dec.V
    /\ pc = "ready"
    /\ coef_list = <<>>
    /\ rep_out = NoRep
    /\ representatives = <<>>
    /\ listofmaxes = <<>>
    /\ maxval = Sentinel
    /\ raised = ""
    /\ betagen = NoGen
    /\ yielded = <<>>

\* a call of find_rep(coefs)
FindRep(coefs) ==
    /\ pc = "ready"
    /\ coef_list' = coefs
    /\ rep_out' = find_rep(basepoint, group, coefs)
    /\ pc' = "find_rep_returned"
    /\ UNCHANGED <<ndqfVars, group, homArgs, representatives, listofmaxes,
                   maxval, raised, betaVars>>

\* correction_terms, lines 92-94: map() builds the whole list at once
CorrectionTermsCall ==
    /\ pc = "ready"
    /\ LET coef_lists == lrange(group.structure)
       IN  representatives' =
               [k \in 1..Len(coef_lists) |-> find_rep(basepoint, group, coef_lists[k])]
    /\ listofmaxes' = <<>>
    /\ pc' = "ct_loop"
    /\ UNCHANGED <<ndqfVars, group, homArgs, coef_list, rep_out, maxval, raised,
                   betaVars>>

\* correction_terms, lines 95-97: the next rep of 'for rep in representatives'
CorrectionTermsRep ==
    /\ pc = "ct_loop"
    /\ Len(listofmaxes) < Len(representatives)
    /\ maxval' = Sentinel
    /\ betagen' = get_beta(representatives[Len(listofmaxes) + 1])
    /\ yielded' = <<>>
    /\ pc' = "ct_inner"
    /\ UNCHANGED <<ndqfVars, group, homArgs, coef_list, rep_out, representatives,
                   listofmaxes, raised>>

\* correction_terms, lines 100-106: one pass of 'for beta in betagen', or
\* its end and the append
CorrectionTermsBeta ==
    /\ pc = "ct_inner"
    /\ betagen' = GenResume(mat, betagen)
    /\ IF betagen'.pc = "yielded"
       THEN LET beta == GenValue(betagen')
                alpha == VecAdd(betagen.rep.val, beta)
                alphaval == find_abs(mat_inverse, alpha)
            IN  /\ yielded' = Append(yielded, beta)
                /\ maxval' = IF Larger(alphaval, maxval) THEN alphaval ELSE maxval
                /\ UNCHANGED <<pc, listofmaxes, raised>>
       ELSE IF betagen'.pc = "raised"
       THEN /\ pc' = "ct_raised"
            /\ raised' = betagen'.raised
            /\ UNCHANGED <<yielded, maxval, listofmaxes>>
       ELSE /\ listofmaxes' = Append(listofmaxes, maxval)
            /\ pc' = "ct_loop"
            /\ UNCHANGED <<yielded, maxval, raised>>
    /\ UNCHANGED <<ndqfVars, group, homArgs, coef_list, rep_out, representatives>>

\* correction_terms, line 108: return listofmaxes
CorrectionTermsReturn ==
    /\ pc = "ct_loop"
    /\ Len(listofmaxes) = Len(representatives)
    /\ pc' = "ct_returned"
    /\ UNCHANGED <<ndqfVars, group, homArgs, callVars, raised, betaVars>>

Next ==
    \/ \E coefs \in CoefLists : FindRep(coefs)
    \/ CorrectionTermsCall
    \/ CorrectionTermsRep
    \/ CorrectionTermsBeta
    \/ CorrectionTermsReturn

Spec == Init /\ [][Next]_vars

----------------------------------------------------------------------------
(* Hom_Group(diagonal, rows) called on any diagonal matrix and row matrix. *)

NoDecomp == [D |-> <<>>, U |-> <<>>, V |-> <<>>]

InitHom ==
    /\ \E n \in 1..MaxDim : \E d \in [1..n -> (-MaxFactor)..MaxFactor] :
       \E v \in UniMats(n) :
        /\ diagonal = DiagMat(d)
        /\ rows = v
    /\ group = NoGroup
    /\ pc = "hom_call"
    /\ mat = <<>>
    /\ decomp = NoDecomp
    /\ mat_inverse = <<>>
    /\ basepoint = <<>>
    /\ coef_list = <<>>
    /\ rep_out = NoRep
    /\ representatives = <<>>
    /\ listofmaxes = <<>>
    /\ maxval = Sentinel
    /\ raised = ""
    /\ betagen = NoGen
    /\ yielded = <<>>

\* Hom_Group.__init__
HomGroupInit ==
    /\ pc = "hom_call"
    /\ group' = Hom_Group(diagonal, rows)
    /\ pc' = "hom_built"
    /\ UNCHANGED <<ndqfVars, homArgs, callVars, raised, betaVars>>

NextHom == HomGroupInit

SpecHom == InitHom /\ [][NextHom]_vars

----------------------------------------------------------------------------
(* get_beta(rep) run on its own: any diagonal of the form, any rep.  Only  *)
(* the diagonal of self.mat is read by max_bounds.                         *)

InitBeta ==
    /\ \E n \in 1..MaxDim : \E d \in [1..n -> (-1)..MaxDiag] :
        mat = DiagMat([i \in 1..n |-> -d[i]])
    /\ betagen = NoGen
    /\ yielded = <<>>
    /\ pc = "ready"
    /\ decomp = NoDecomp
    /\ mat_inverse = <<>>
    /\ basepoint = <<>>
    /\ group = NoGroup
    /\ diagonal = <<>>
    /\ rows = <<>>
    /\ coef_list = <<>>
    /\ rep_out = NoRep
    /\ representatives = <<>>
    /\ listofmaxes = <<>>
    /\ maxval = Sentinel
    /\ raised = ""

\* a call of get_beta(rep), rep a 1xn matrix
GetBetaCall(r) ==
    /\ pc = "ready"
    /\ betagen' = get_beta([shape |-> "matrix", val |-> r])
    /\ pc' = "get_beta"
    /\ UNCHANGED <<ndqfVars, group, homArgs, callVars, raised, yielded>>

\* the consumer's next() on the generator
BetaAdvance ==
    /\ betagen' = GenResume(mat, betagen)
    /\ yielded' = IF betagen'.pc = "yielded"
                  THEN Append(yielded, GenValue(betagen'))
                  ELSE yielded
    /\ raised' = betagen'.raised
    /\ UNCHANGED <<ndqfVars, group, homArgs, pc, callVars>>

\* the first next(): lines 149-156
BetaFirst ==
    /\ betagen.pc = "start"
    /\ BetaAdvance

\* a later next(): lines 158-161, then 154-156
BetaResume ==
    /\ betagen.pc = "yielded"
    /\ BetaAdvance

NextBeta ==
    \/ \E r \in [1..Len(mat) -> (-MaxRep)..MaxRep] : GetBetaCall(r)
    \/ BetaFirst
    \/ BetaResume

SpecBeta == InitBeta /\ [][NextBeta]_vars

\* the same runs for the non-negative rep only
NextBetaRun ==
    \/ \E r \in [1..Len(mat) -> 0..MaxRep] : GetBetaCall(r)
    \/ BetaFirst
    \/ BetaResume

\* the for loop of correction_terms keeps asking for the next vector
SpecBetaFair == InitBeta /\ [][NextBetaRun]_vars /\ WF_vars(NextBetaRun)

----------------------------------------------------------------------------
(* Properties. *)

\* -M[i,i]
DiagVal(i) == -mat[i][i]

\* product of the first i-1 sizes
RECURSIVE Weight(_, _)
Weight(sizes, i) == IF i <= 1 THEN 1 ELSE sizes[i - 1] * Weight(sizes, i - 1)

\* the k-th vector (k from 1) of the product of the lists ml when coordinate 0
\* is the fastest digit
MixedRadixVector(ml, sizes, k) ==
    [i \in 1..Len(ml) |-> ml[i][(((k - 1) \div Weight(sizes, i)) % sizes[i]) + 1]]

MixedRadixOrder(ml) ==
    LET sizes == [i \in 1..Len(ml) |-> Len(ml[i])]
    IN  [k \in 1..ProdSeq(sizes) |-> MixedRadixVector(ml, sizes, k)]

Elements(lst) == {lst[k] : k \in 1..Len(lst)}

\* the Cartesian product of the candidate lists
RECURSIVE CandidateVectors(_)
CandidateVectors(ml) ==
    IF ml = <<>> THEN {<<>>}
    ELSE {<<x>> \o t : x \in Elements(Head(ml)), t \in CandidateVectors(Tail(ml))}

\* C3: get_beta(rep) ends having yielded product(max_list_sizes) vectors, each
\* vector of the Cartesian product of the candidate lists of max_bounds(rep)
\* exactly once, in mixed-radix order with coordinate 0 the fastest digit;
\* and it does end.
C3_GetBetaEnumerates ==
    <>[](/\ betagen.pc = "done"
         /\ LET ml == max_bounds(mat, betagen.rep.val).max_list
            IN  /\ yielded = MixedRadixOrder(ml)
                /\ Len(yielded) = ProdSeq([i \in 1..Len(ml) |-> Len(ml[i])])
                /\ \A v \in CandidateVectors(ml) :
                      Cardinality({k \in 1..Len(yielded) : yielded[k] = v}) = 1
                /\ \A k \in 1..Len(yielded) : yielded[k] \in CandidateVectors(ml))

\* a run in which the first digit wrapped and carried into the second
C3_Witness ==
    /\ betagen.pc = "done"
    /\ Len(mat) = 2
    /\ Len(yielded) >= 4
    /\ yielded[1][2] # yielded[Len(yielded)][2]

\* C10: whenever get_beta builds a vector every counter digit is inside its
\* candidate list, and neither increment's ValueError nor any other
\* exception comes out of the generator.
C10_CounterInRange ==
    /\ betagen.raised = ""
    /\ betagen.pc # "raised"
    /\ betagen.pc = "yielded" =>
          \A i \in 1..Len(betagen.counter) :
             /\ 0 <= betagen.counter[i]
             /\ betagen.counter[i] < betagen.max_list_sizes[i]

\* a finished run whose last step stood at the last combination, with a
\* digit of radix 1 (its maximum is reached at once) and a carry
C10_Witness ==
    /\ betagen.pc = "done"
    /\ Len(mat) = 2
    /\ betagen.max_list_sizes[1] = 1
    /\ betagen.max_list_sizes[2] >= 2
    /\ Len(yielded) = betagen.max_list_sizes[2]

\* the state of get_beta once max_bounds has been called
BoundsKnown == betagen.pc \in {"yielded", "done"}

Increasing(lst) == \A a, b \in 1..Len(lst) : a < b => lst[a] < lst[b]

\* every integer a candidate can be
Window == (-(MaxDiag + MaxRep + 2))..(MaxDiag + MaxRep + 2)

\* C5 as stated: the candidate list of coordinate i holds, in increasing
\* order, exactly the even j with -d_i - rep[i] < j < d_i - rep[i].
C5_StrictWindow ==
    BoundsKnown =>
        \A i \in 1..Len(mat) :
            /\ Increasing(betagen.max_list[i])
            /\ Elements(betagen.max_list[i]) =
                  {j \in Window : /\ IsEven(j)
                                  /\ -DiagVal(i) - betagen.rep.val[i] < j
                                  /\ j < DiagVal(i) - betagen.rep.val[i]}

\* C5 amended: the candidate list of coordinate i holds, in increasing
\* order, exactly the even j with -d_i - rep[i] <= j <= d_i - rep[i].
C5_ClosedWindow ==
    BoundsKnown =>
        \A i \in 1..Len(mat) :
            /\ Increasing(betagen.max_list[i])
            /\ Elements(betagen.max_list[i]) =
                  {j \in Window : /\ IsEven(j)
                                  /\ -DiagVal(i) - betagen.rep.val[i] <= j
                                  /\ j <= DiagVal(i) - betagen.rep.val[i]}

\* a list that starts at -d_i - rep[i] and ends at d_i - rep[i]
C5_Witness ==
    /\ BoundsKnown
    /\ \E i \in 1..Len(mat) :
          /\ betagen.max_list_sizes[i] >= 2
          /\ betagen.max_list[i][1] = -DiagVal(i) - betagen.rep.val[i]
          /\ betagen.max_list[i][betagen.max_list_sizes[i]]
                = DiagVal(i) - betagen.rep.val[i]

\* C7: the built group has len(gen) + len(rel) = n and len(gen) =
\* len(structure); gen is rows n-k..n-1 of V and rel is rows 0..n-k-1 of V,
\* k = len(structure), wherever the non-trivial entries stand on the diagonal.
C7_GenRelSplit ==
    pc = "hom_built" =>
        LET n == Len(diagonal)
            k == Len(group.structure)
        IN  /\ Len(group.gen) + Len(group.rel) = n
            /\ Len(group.gen) = k
            /\ group.gen = SubSeq(rows, n - k + 1, n)
            /\ group.rel = SubSeq(rows, 1, n - k)

\* a group with generators and relations whose non-trivial entry is the
\* first on the diagonal
C7_Witness ==
    /\ pc = "hom_built"
    /\ Len(diagonal) = 2
    /\ diagonal[1][1] = 2
    /\ diagonal[2][2] = 1
    /\ Len(group.gen) = 1
    /\ Len(group.rel) = 1

IsNotUnit(x) == Abs(x) # 1

\* C8: structure is the sequence of diagonal entries of D whose absolute
\* value is not 1, in diagonal order.
C8_StructureDropsUnits ==
    pc = "hom_built" =>
        group.structure = SelectSeq(Diagonal(diagonal), IsNotUnit)

\* leading principal minors alternate in sign, starting negative
NegativeDefinite(m) ==
    /\ Symmetric(m)
    /\ \A k \in 1..Len(m) :
          LET minor == Det([i \in 1..k |-> [j \in 1..k |-> m[i][j]]])
          IN  IF k % 2 = 1 THEN minor < 0 ELSE minor > 0

\* every tuple c with 0 <= c[i] < s[i], the rightmost coordinate fastest
RECURSIVE TailWeight(_, _)
TailWeight(s, i) == IF i >= Len(s) THEN 1 ELSE s[i + 1] * TailWeight(s, i + 1)

LexTuples(s) ==
    [k \in 1..ProdSeq(s) |->
        [i \in 1..Len(s) |-> ((k - 1) \div TailWeight(s, i)) % s[i]]]

\* the vectors get_beta(rep) yields, rep a 1xn matrix
BetasOf(r) == Drain(mat, get_beta([shape |-> "matrix", val |-> r]), <<>>).betas

\* basepoint + sum of c[i] * gen[i]
RepOf(c) ==
    VecAdd(basepoint,
           VecSum([i \in 1..Len(c) |-> VecScale(c[i], group.gen[i])], Len(basepoint)))

\* v is the maximum of find_abs(r + beta) over the vectors of betas
IsMaxOver(v, r, betas) ==
    /\ \E k \in 1..Len(betas) : v = find_abs(mat_inverse, VecAdd(r, betas[k]))
    /\ \A k \in 1..Len(betas) : ~FracGt(find_abs(mat_inverse, VecAdd(r, betas[k])), v)

\* C1: for a negative definite form correction_terms() returns a list whose
\* k-th entry is the maximum of find_abs(rep_k + beta) over the vectors beta
\* of get_beta(rep_k), rep_k the representative of the k-th coefficient list
\* of lrange(group.structure); the entry is one of those values, never the
\* initial -maxint-1.
C1_EntriesAreMaxima ==
    NegativeDefinite(mat) =>
        /\ pc # "ct_raised"
        /\ pc \in {"ct_loop", "ct_inner", "ct_returned"} =>
              \A k \in 1..Len(listofmaxes) :
                 LET rep_k == RepOf(lrange(group.structure)[k])
                 IN  /\ IsMaxOver(listofmaxes[k], rep_k, BetasOf(rep_k))
                     /\ listofmaxes[k] # Sentinel

\* C2: lrange(s) is every tuple c with 0 <= c[i] < s[i] once, the rightmost
\* coordinate fastest (one empty tuple for empty s), and for a negative
\* definite form correction_terms() returns one entry per tuple in that
\* order.
C2_OneEntryPerTuple ==
    /\ pc \in {"ct_loop", "ct_inner", "ct_returned", "ct_raised"} =>
          /\ lrange(group.structure) = LexTuples(group.structure)
          /\ Len(representatives) = ProdSeq(group.structure)
          /\ \A k \in 1..Len(representatives) :
                representatives[k].val = RepOf(LexTuples(group.structure)[k])
    /\ NegativeDefinite(mat) =>
          /\ pc # "ct_raised"
          /\ pc = "ct_returned" => Len(listofmaxes) = ProdSeq(group.structure)

\* C6: find_rep returns only when len(coef_list) = len(group.structure), and
\* then returns basepoint + sum of coef_list[i] * gen[i].
C6_FindRepChecksLength ==
    pc = "find_rep_returned" =>
        /\ Len(coef_list) = Len(group.structure)
        /\ rep_out.val = RepOf(coef_list)

\* the 1x1 form [[-n]] decomposed with D = [n]
OneByOne(n) == Len(mat) = 1 /\ mat[1][1] = -n /\ decomp.D[1][1] = n

====
